---------------------------- MODULE Spec2Model ----------------------------
(***************************************************************************)
(* A model of scrapy.http.response.text.TextResponse: the encoding         *)
(* resolution chain, the lazily cached text / JSON / selector slots and    *)
(* the follow / follow_all link-following operations.                      *)
(*                                                                         *)
(* Bytes are the integers 0..255.  A body is a sequence of units: a unit   *)
(* below 256 is one byte, a unit from 256 on stands for the run of ASCII   *)
(* bytes of one <meta charset=...> declaration.  Decoded text is a         *)
(* sequence of code points.  Python's None is the string None, except in   *)
(* the slots that hold a text, where <<>> is None and <<t>> is the text t. *)
(***************************************************************************)
EXTENDS Integers, Sequences, FiniteSets, TLC

VARIABLES
    _encoding,             \* the encoding keyword of __init__ (None when absent)
    headers,               \* the charset label of the Content-Type header, or None
    body,                  \* the raw body
    _cached_benc,          \* TextResponse._cached_benc
    _cached_ubody,         \* TextResponse._cached_ubody
    _cached_decoded_json,  \* TextResponse._cached_decoded_json
    _cached_selector,      \* TextResponse._cached_selector
    memo,                  \* the caches of the memoizemethod_noargs methods
    calls,                 \* how many times each underlying procedure has run
    ret,                   \* the outcome of the last call, with its arguments
                           \* (again: the same call had been made before)
    gen,                   \* the generator the last follow_all call returned:
                           \* the urls it has yet to follow, the requests it
                           \* has produced, and where its targets came from
                           \* (source) and what they were (given)
    dom,                   \* the selectors a query on the response finds
    text_results,          \* every value a text access has returned
    json_results,          \* every value a json() call has returned
    threads                \* of each thread: the method it is in, the line it
                           \* is at and the value it holds

vars == << _encoding, headers, body, _cached_benc, _cached_ubody,
           _cached_decoded_json, _cached_selector, memo, calls, ret, gen,
           dom, text_results, json_results, threads >>

-----------------------------------------------------------------------------
(* Bounds of the model *)

\* A counter of calls never passes this: an operation that would is not taken.
MaxCalls == 3

\* The longest result of a query, and so the longest collection of targets
\* given to follow_all.
MaxTargets == 2

\* The longest attribute value or string under a selector.
MaxHref == 2

-----------------------------------------------------------------------------
(* Values *)

None == "None"

\* The sentinel of the JSON slot: distinct from every JSON value, None included.
_NONE == "_NONE"

_DEFAULT_ENCODING == "ascii"

NoText == << >>

SomeText(t) == << t >>

\* U+FFFD, what a lenient decode puts for bytes it cannot decode
ReplacementChar == 65533

\* Units that stand for <meta charset=utf8> and <meta charset=latin1>
MetaUtf8 == 256

MetaLatin1 == 257

BomUtf8 == << 239, 187, 191 >>

BomUtf16le == << 255, 254 >>

RECURSIVE Drop(_, _)
Drop(s, n) == IF n = 0 \/ s = << >> THEN s ELSE Drop(Tail(s), n - 1)

StartsWith(s, p) == Len(s) >= Len(p) /\ SubSeq(s, 1, Len(p)) = p

-----------------------------------------------------------------------------
(* w3lib.encoding, as TextResponse uses it *)

\* resolve_encoding: the canonical name of a label, None for an unknown one.
\* w3lib translates ascii and latin1 to their superset cp1252.
resolve_encoding(label) ==
    CASE label \in {"utf8", "utf-8"} -> "utf-8"
      [] label \in {"ascii", "latin1", "cp1252"} -> "cp1252"
      [] label = "utf-16-le" -> "utf-16-le"
      [] OTHER -> None

\* read_bom: (encoding, bom) of a body that starts with a byte order mark
read_bom(b) ==
    CASE StartsWith(b, BomUtf8) -> << "utf-8", BomUtf8 >>
      [] StartsWith(b, BomUtf16le) -> << "utf-16-le", BomUtf16le >>
      [] OTHER -> << None, << >> >>

\* http_content_type_encoding that returns the label as the header has it
http_content_type_encoding_verbatim(label) == label

\* http_content_type_encoding of a header whose charset parameter is label
http_content_type_encoding(label) ==
    IF label = None THEN None ELSE resolve_encoding(label)

\* html_body_declared_encoding: the first declaration in the body, resolved
RECURSIVE html_body_declared_encoding(_)
html_body_declared_encoding(b) ==
    IF b = << >> THEN None
    ELSE IF Head(b) = MetaUtf8 THEN resolve_encoding("utf8")
    ELSE IF Head(b) = MetaLatin1 THEN resolve_encoding("latin1")
    ELSE html_body_declared_encoding(Tail(b))

IsMeta(u) == u >= 256

\* bytes.decode(enc) with errors="strict": whether it succeeds
RECURSIVE Utf8Valid(_)
Utf8Valid(b) ==
    IF b = << >> THEN TRUE
    ELSE IF IsMeta(Head(b)) \/ Head(b) < 128 THEN Utf8Valid(Tail(b))
    ELSE IF Head(b) \in 194..223
         THEN Len(b) >= 2 /\ b[2] \in 128..191 /\ Utf8Valid(Drop(b, 2))
    ELSE IF Head(b) \in 225..239
         THEN Len(b) >= 3 /\ b[2] \in 128..191 /\ b[3] \in 128..191
              /\ Utf8Valid(Drop(b, 3))
    ELSE FALSE

\* The bytes cp1252 leaves undefined
Cp1252Undefined == {129, 141, 143, 144, 157}

Decodes(b, enc) ==
    CASE enc = "ascii" -> \A i \in 1..Len(b) : IsMeta(b[i]) \/ b[i] < 128
      [] enc = "utf-8" -> Utf8Valid(b)
      [] enc = "cp1252" -> \A i \in 1..Len(b) : b[i] \notin Cp1252Undefined
      [] OTHER -> FALSE

\* to_unicode(b, enc): bytes.decode(enc, errors="replace")
RECURSIVE DecodeUtf8(_)
DecodeUtf8(b) ==
    IF b = << >> THEN << >>
    ELSE IF IsMeta(Head(b)) \/ Head(b) < 128
         THEN << Head(b) >> \o DecodeUtf8(Tail(b))
    ELSE IF Head(b) \in 194..223 /\ Len(b) >= 2 /\ b[2] \in 128..191
         THEN << (Head(b) - 192) * 64 + (b[2] - 128) >> \o DecodeUtf8(Drop(b, 2))
    ELSE IF Head(b) \in 225..239 /\ Len(b) >= 3 /\ b[2] \in 128..191
            /\ b[3] \in 128..191
         THEN << (Head(b) - 224) * 4096 + (b[2] - 128) * 64 + (b[3] - 128) >>
              \o DecodeUtf8(Drop(b, 3))
    ELSE << ReplacementChar >> \o DecodeUtf8(Tail(b))

RECURSIVE DecodeUtf16le(_)
DecodeUtf16le(b) ==
    IF b = << >> THEN << >>
    ELSE IF Len(b) = 1 \/ IsMeta(b[1]) \/ IsMeta(b[2])
         THEN << ReplacementChar >> \o DecodeUtf16le(Tail(b))
    ELSE << b[1] + 256 * b[2] >> \o DecodeUtf16le(Drop(b, 2))

to_unicode(b, enc) ==
    CASE enc = "utf-8" -> DecodeUtf8(b)
      [] enc = "utf-16-le" -> DecodeUtf16le(b)
      [] enc = "cp1252" ->
            [i \in 1..Len(b) |->
                IF b[i] \in Cp1252Undefined THEN ReplacementChar ELSE b[i]]
      [] OTHER ->
            [i \in 1..Len(b) |->
                IF IsMeta(b[i]) \/ b[i] < 128 THEN b[i] ELSE ReplacementChar]


\* json.loads of bytes: detect_encoding drops a byte order mark, the text is
\* decoded strictly and parsed.  The JSON documents of the model are the
\* literals below; null loads as None.
StripBom(b) == Drop(b, Len(read_bom(b)[2]))

JsonPayload(b) ==
    IF read_bom(b)[1] = "utf-16-le"
    THEN to_unicode(StripBom(b), "utf-16-le")
    ELSE StripBom(b)

json_loads(b) ==
    LET p == JsonPayload(b) IN
    CASE p = << 48 >> -> "0"
      [] p = << 110, 117, 108, 108 >> -> None
      [] p = << 102, 97, 108, 115, 101 >> -> "False"
      [] p = << 34, 34 >> -> "''"
      [] p = << 91, 93 >> -> "[]"
      [] p = << 123, 125 >> -> "{}"
      [] read_bom(b)[1] = None /\ ~Utf8Valid(b) -> "UnicodeDecodeError"
      [] OTHER -> "JSONDecodeError"

\* What json.loads raises; both are ValueError subclasses
JsonErrors == {"UnicodeDecodeError", "JSONDecodeError"}

-----------------------------------------------------------------------------
(* The response object.  Every method is an operator from the object s to   *)
(* the object after the call (self), the value returned (val) and the      *)
(* exception raised (err, None when the call returns).                     *)

Self ==
    [ _encoding |-> _encoding, headers |-> headers, body |-> body,
      _cached_benc |-> _cached_benc, _cached_ubody |-> _cached_ubody,
      _cached_decoded_json |-> _cached_decoded_json,
      _cached_selector |-> _cached_selector, memo |-> memo, calls |-> calls ]

\* An exception: its class, its message and the tag the message names
\* Every record of this module lists its fields in the order in which the
\* names first occur in the module, the order TLC keeps them in.
Exc(class, msg, tag) == [msg |-> msg, tag |-> tag, exc |-> class]

NoError == Exc(None, "", "")

Return(s, v) == [self |-> s, val |-> v, err |-> NoError]

Raise(s, e) == [self |-> s, val |-> None, err |-> e]

Count(s, proc) == [s EXCEPT !.calls[proc] = @ + 1]

\* F applied to the value of v, v evaluated once
Bind(v, F(_)) == CHOOSE x \in { F(r) : r \in {v} } : TRUE

\* Python truth of an optional string
Truthy(x) == x # None /\ x # ""

NotCached == "NotCached"

Memoized == {"_bom_encoding", "_headers_encoding", "_body_declared_encoding"}

Procedures ==
    Memoized \cup {"html_to_unicode", "_auto_detect_fun", "json_loads", "Selector"}

\* memoizemethod_noargs that takes a cached None for no cache
memoizemethod_noargs_skipping_none(s, method, v) ==
    IF s.memo[method] \notin {NotCached, None}
    THEN Return(s, s.memo[method])
    ELSE Return([Count(s, method) EXCEPT !.memo[method] = v], v)

\* memoizemethod_noargs: the method body runs on the first call only
memoizemethod_noargs(s, method, v) ==
    IF s.memo[method] # NotCached
    THEN Return(s, s.memo[method])
    ELSE Return([Count(s, method) EXCEPT !.memo[method] = v], v)

_headers_encoding(s) ==
    memoizemethod_noargs(s, "_headers_encoding", http_content_type_encoding(s.headers))

_body_declared_encoding(s) ==
    memoizemethod_noargs(s, "_body_declared_encoding", html_body_declared_encoding(s.body))

_bom_encoding(s) ==
    memoizemethod_noargs(s, "_bom_encoding", read_bom(s.body)[1])

\* _declared_encoding with the byte order mark asked before self._encoding
_declared_encoding_bom_first(s) ==
    LET OrBodyDeclared(hdr) ==
            IF Truthy(hdr.val) THEN hdr ELSE _body_declared_encoding(hdr.self)
        OrHeaders(bom) ==
            IF Truthy(bom.val) THEN bom
            ELSE IF Truthy(s._encoding) THEN Return(bom.self, s._encoding)
            ELSE Bind(_headers_encoding(bom.self), OrBodyDeclared)
    IN  Bind(_bom_encoding(s), OrHeaders)

\* _declared_encoding with the header asked before the byte order mark
_declared_encoding_headers_first(s) ==
    LET OrBodyDeclared(bom) ==
            IF Truthy(bom.val) THEN bom ELSE _body_declared_encoding(bom.self)
        OrBom(hdr) ==
            IF Truthy(hdr.val) THEN hdr
            ELSE Bind(_bom_encoding(hdr.self), OrBodyDeclared)
    IN  IF Truthy(s._encoding) THEN Return(s, s._encoding)
        ELSE Bind(_headers_encoding(s), OrBom)

\* _declared_encoding with self._encoding asked after the three detectors
_declared_encoding_override_last(s) ==
    LET OrOverride(decl) ==
            IF Truthy(decl.val) THEN decl ELSE Return(decl.self, s._encoding)
        OrBodyDeclared(hdr) ==
            IF Truthy(hdr.val) THEN hdr
            ELSE Bind(_body_declared_encoding(hdr.self), OrOverride)
        OrHeaders(bom) ==
            IF Truthy(bom.val) THEN bom
            ELSE Bind(_headers_encoding(bom.self), OrBodyDeclared)
    IN  Bind(_bom_encoding(s), OrHeaders)

\* a or b or c or d: the first operand that is true, else the last
_declared_encoding(s) ==
    LET OrBodyDeclared(hdr) ==
            IF Truthy(hdr.val) THEN hdr ELSE _body_declared_encoding(hdr.self)
        OrHeaders(bom) ==
            IF Truthy(bom.val) THEN bom
            ELSE Bind(_headers_encoding(bom.self), OrBodyDeclared)
    IN  IF Truthy(s._encoding) THEN Return(s, s._encoding)
        ELSE Bind(_bom_encoding(s), OrHeaders)

\* The candidates of _auto_detect_fun with utf-8 tried first
AutoDetectOrder_utf8_first == << "utf-8", _DEFAULT_ENCODING, "cp1252" >>

\* The encodings _auto_detect_fun tries, in its order
AutoDetectOrder == << _DEFAULT_ENCODING, "utf-8", "cp1252" >>

RECURSIVE FirstDecoding(_, _)
FirstDecoding(b, encs) ==
    IF encs = << >> THEN None
    ELSE IF Decodes(b, Head(encs)) THEN resolve_encoding(Head(encs))
    ELSE FirstDecoding(b, Tail(encs))

_auto_detect_fun(s, b) ==
    Return(Count(s, "_auto_detect_fun"), FirstDecoding(b, AutoDetectOrder))

\* w3lib's html_to_unicode(content_type, body, default_encoding, auto_detect_fun)
\* on the body of s: the pair (encoding, text).  charset is the charset label
\* of the content type given; auto says whether auto_detect_fun is given.
html_to_unicode(s, charset, default_encoding, auto) ==
    LET s1 == Count(s, "html_to_unicode")
        b == s.body
        bom == read_bom(b)
        henc == http_content_type_encoding(charset)
        denc == html_body_declared_encoding(b)
        Decoded(detected) ==
            LET enc == IF detected.val = None THEN default_encoding
                       ELSE detected.val
            IN  Return(detected.self, << enc, to_unicode(b, enc) >>)
    IN  IF bom[1] # None
        THEN Return(s1, << bom[1], to_unicode(Drop(b, Len(bom[2])), bom[1]) >>)
        ELSE IF henc # None THEN Return(s1, << henc, to_unicode(b, henc) >>)
        ELSE IF denc # None THEN Return(s1, << denc, to_unicode(b, denc) >>)
        ELSE IF auto THEN Bind(_auto_detect_fun(s1, b), Decoded)
        ELSE Decoded(Return(s1, None))

\* _body_inferred_encoding that keeps the encoding and drops the text
_body_inferred_encoding_discarding(s) ==
    LET Store(r) == Return([r.self EXCEPT !._cached_benc = r.val[1]], r.val[1])
    IN  IF s._cached_benc = None
        THEN Bind(html_to_unicode(s, s.headers, _DEFAULT_ENCODING, TRUE), Store)
        ELSE Return(s, s._cached_benc)

_body_inferred_encoding(s) ==
    LET Store(r) ==
            Return([r.self EXCEPT !._cached_benc = r.val[1],
                                  !._cached_ubody = SomeText(r.val[2])],
                   r.val[1])
    IN  IF s._cached_benc = None
        THEN Bind(html_to_unicode(s, s.headers, _DEFAULT_ENCODING, TRUE), Store)
        ELSE Return(s, s._cached_benc)

encoding(s) ==
    LET OrInferred(declared) ==
            IF Truthy(declared.val) THEN declared
            ELSE _body_inferred_encoding(declared.self)
    IN  Bind(_declared_encoding(s), OrInferred)

text(s) ==
    LET Store(r) ==
            Return([r.self EXCEPT !._cached_ubody = SomeText(r.val[2])], r.val[2])
        Decode(benc) ==
            IF benc.self._cached_ubody = NoText
            THEN Bind(html_to_unicode(benc.self, benc.val, "utf8", FALSE), Store)
            ELSE Return(benc.self, benc.self._cached_ubody[1])
    IN  Bind(encoding(s), Decode)

\* json() that stores None in the slot when json.loads raises
json_caching_failure(s) ==
    IF s._cached_decoded_json = _NONE
    THEN LET s1 == Count(s, "json_loads")
             v == json_loads(s.body)
         IN  IF v \in JsonErrors
             THEN Raise([s1 EXCEPT !._cached_decoded_json = None], Exc(v, "", ""))
             ELSE Return([s1 EXCEPT !._cached_decoded_json = v], v)
    ELSE Return(s, s._cached_decoded_json)

\* json() with None for the empty slot
json_none_sentinel(s) ==
    IF s._cached_decoded_json \in {_NONE, None}
    THEN LET s1 == Count(s, "json_loads")
             v == json_loads(s.body)
         IN  IF v \in JsonErrors THEN Raise(s1, Exc(v, "", ""))
             ELSE Return([s1 EXCEPT !._cached_decoded_json = v], v)
    ELSE Return(s, s._cached_decoded_json)

\* json() that stores the error of json.loads in the slot and raises it again
\* on later calls without calling json.loads
json_remembering_failure(s) ==
    IF s._cached_decoded_json = _NONE
    THEN LET s1 == Count(s, "json_loads")
             v == json_loads(s.body)
         IN  IF v \in JsonErrors
             THEN Raise([s1 EXCEPT !._cached_decoded_json = v], Exc(v, "", ""))
             ELSE Return([s1 EXCEPT !._cached_decoded_json = v], v)
    ELSE IF s._cached_decoded_json \in JsonErrors
    THEN Raise(s, Exc(s._cached_decoded_json, "", ""))
    ELSE Return(s, s._cached_decoded_json)

\* json() that loads the document from the decoded text
json_from_text(s) ==
    LET Load(t) ==
            LET s1 == Count(t.self, "json_loads")
                v == json_loads(s.body)
            IN  IF v \in JsonErrors THEN Raise(s1, Exc(v, "", ""))
                ELSE Return([s1 EXCEPT !._cached_decoded_json = v], v)
    IN  IF s._cached_decoded_json = _NONE
        THEN Bind(text(s), Load)
        ELSE Return(s, s._cached_decoded_json)

json(s) ==
    IF s._cached_decoded_json = _NONE
    THEN LET s1 == Count(s, "json_loads")
             v == json_loads(s.body)
         IN  IF v \in JsonErrors THEN Raise(s1, Exc(v, "", ""))
             ELSE Return([s1 EXCEPT !._cached_decoded_json = v], v)
    ELSE Return(s, s._cached_decoded_json)

-----------------------------------------------------------------------------
(* Link targets.  A string is a sequence of characters.  A selector is its  *)
(* root: a string (root = "str", text), an element (root = "element", tag  *)
(* and href, NoText when the attribute is absent) or a node without a tag. *)

Html5Whitespace == {" ", "\t", "\n", "\r", "\f"}

RECURSIVE StripLeft(_)
StripLeft(t) ==
    IF t # << >> /\ Head(t) \in Html5Whitespace THEN StripLeft(Tail(t)) ELSE t

RECURSIVE StripRight(_)
StripRight(t) ==
    IF t # << >> /\ t[Len(t)] \in Html5Whitespace
    THEN StripRight(SubSeq(t, 1, Len(t) - 1))
    ELSE t

strip_html5_whitespace(t) == StripRight(StripLeft(t))

StrRoot(t) == [tag |-> "", text |-> t, root |-> "str", href |-> NoText]

Element(tag, href) == [tag |-> tag, text |-> << >>, root |-> "element", href |-> href]

OtherRoot == [tag |-> "", text |-> << >>, root |-> "other", href |-> NoText]

_InvalidSelector(msg, tag) == Exc("_InvalidSelector", msg, tag)

\* _url_from_selector: the URL (val) or the _InvalidSelector raised (err)
\* _url_from_selector that looks for the href before it looks at the tag
_url_from_selector_href_first(sel) ==
    IF sel.root = "str"
    THEN [val |-> strip_html5_whitespace(sel.text), err |-> NoError]
    ELSE IF sel.root # "element"
    THEN [val |-> << >>, err |-> _InvalidSelector("Unsupported selector", "")]
    ELSE IF sel.href = NoText
    THEN [val |-> << >>,
          err |-> _InvalidSelector("element has no href attribute", sel.tag)]
    ELSE IF sel.tag \notin {"a", "link"}
    THEN [val |-> << >>,
          err |-> _InvalidSelector("Only <a> and <link> elements are supported", sel.tag)]
    ELSE [val |-> strip_html5_whitespace(sel.href[1]), err |-> NoError]

_url_from_selector(sel) ==
    IF sel.root = "str"
    THEN [val |-> strip_html5_whitespace(sel.text), err |-> NoError]
    ELSE IF sel.root # "element"
    THEN [val |-> << >>, err |-> _InvalidSelector("Unsupported selector", "")]
    ELSE IF sel.tag \notin {"a", "link"}
    THEN [val |-> << >>,
          err |-> _InvalidSelector("Only <a> and <link> elements are supported", sel.tag)]
    ELSE IF sel.href = NoText
    THEN [val |-> << >>,
          err |-> _InvalidSelector("element has no href attribute", sel.tag)]
    ELSE [val |-> strip_html5_whitespace(sel.href[1]), err |-> NoError]

\* A follow target: a str, a Link, a Selector or a SelectorList
Str(t) == [sel |-> OtherRoot, kind |-> "str", url |-> t]

Link(t) == [sel |-> OtherRoot, kind |-> "Link", url |-> t]

Selector(sel) == [sel |-> sel, kind |-> "Selector", url |-> << >>]

SelectorListTarget == [sel |-> OtherRoot, kind |-> "SelectorList", url |-> << >>]

Request(url, enc) == [encoding |-> enc, url |-> url]

\* The base URL of the response and urllib.parse.urljoin against it
BaseUrl == << "https://x.test", "/", "c", "/" >>

urljoin_base(url) ==
    IF url = << >> THEN BaseUrl
    ELSE IF Head(url) = "/" THEN << Head(BaseUrl) >> \o url
    ELSE BaseUrl \o url

\* TextResponse.urljoin: get_base_url(self) reads the text of the response
urljoin(s, url) ==
    LET Join(t) == Return(t.self, urljoin_base(url))
    IN  Bind(text(s), Join)

\* Response.follow of the base class: a Link gives its url, the url is
\* trimmed and joined, the request carries the encoding it is given
Response_follow(s, url, enc) ==
    LET Build(joined) == Return(joined.self, Request(joined.val, enc))
    IN  Bind(urljoin(s, strip_html5_whitespace(url.url)), Build)

\* follow that resolves the encoding before it looks at the target
follow_resolving_first(s, url, enc) ==
    LET normalized == _url_from_selector(url.sel)
        u == IF url.kind = "Selector" THEN Str(normalized.val) ELSE url
        Validated(e) ==
            IF url.kind = "Selector" /\ normalized.err # NoError
            THEN Raise(e.self, normalized.err)
            ELSE IF url.kind = "SelectorList"
            THEN Raise(e.self, Exc("ValueError", "SelectorList is not supported", ""))
            ELSE Response_follow(e.self, u, e.val)
    IN  Bind(IF enc = None THEN encoding(s) ELSE Return(s, enc), Validated)

\* follow with the default of the base class for an absent encoding
follow_default_utf8(s, url, enc) ==
    LET normalized == _url_from_selector(url.sel)
        u == IF url.kind = "Selector" THEN Str(normalized.val) ELSE url
    IN  IF url.kind = "Selector" /\ normalized.err # NoError
        THEN Raise(s, normalized.err)
        ELSE IF url.kind = "SelectorList"
        THEN Raise(s, Exc("ValueError", "SelectorList is not supported", ""))
        ELSE Response_follow(s, u, IF enc = None THEN "utf-8" ELSE enc)

follow(s, url, enc) ==
    LET normalized == _url_from_selector(url.sel)
        u == IF url.kind = "Selector" THEN Str(normalized.val) ELSE url
        Super(e) == Response_follow(e.self, u, e.val)
    IN  IF url.kind = "Selector" /\ normalized.err # NoError
        THEN Raise(s, normalized.err)
        ELSE IF url.kind = "SelectorList"
        THEN Raise(s, Exc("ValueError", "SelectorList is not supported", ""))
        ELSE Bind(IF enc = None THEN encoding(s) ELSE Return(s, enc), Super)

\* The selector property that lets go of the decoded text once it is built
selector_releasing_text(s) ==
    LET Store(t) ==
            Return([t.self EXCEPT !._cached_selector = "Selector",
                                  !._cached_ubody = NoText], "Selector")
    IN  IF s._cached_selector = None
        THEN Bind(text(Count(s, "Selector")), Store)
        ELSE Return(s, s._cached_selector)

\* The selector property: Selector(self) reads the text of the response
selector(s) ==
    LET Store(t) ==
            Return([t.self EXCEPT !._cached_selector = "Selector"], "Selector")
    IN  IF s._cached_selector = None
        THEN Bind(text(Count(s, "Selector")), Store)
        ELSE Return(s, s._cached_selector)

\* The urls argument of follow_all: None, an ordinary collection of targets
\* or a SelectorList
NoUrls == [kind |-> "None", items |-> << >>]

ListOf(items) == [kind |-> "list", items |-> items]

SelectorList(items) == [kind |-> "SelectorList", items |-> items]

\* css(query) and xpath(query): the query runs on the selector of the
\* response; found is what the query engine finds
css(s, query, found) ==
    LET Query(sel) == Return(sel.self, SelectorList(found))
    IN  Bind(selector(s), Query)

xpath(s, query, found) ==
    LET Query(sel) == Return(sel.self, SelectorList(found))
    IN  Bind(selector(s), Query)

\* The loop of follow_all over a SelectorList, _InvalidSelector suppressed
RECURSIVE UrlsFromSelectors(_)
\* The loop of follow_all, ended by the first _InvalidSelector
UrlsFromSelectors_stop_at_invalid(selectors) ==
    IF selectors = << >> THEN << >>
    ELSE LET r == _url_from_selector(Head(selectors).sel) IN
         IF r.err = NoError
         THEN << Str(r.val) >> \o UrlsFromSelectors(Tail(selectors))
         ELSE << >>

UrlsFromSelectors(selectors) ==
    IF selectors = << >> THEN << >>
    ELSE LET r == _url_from_selector(Head(selectors).sel) IN
         (IF r.err = NoError THEN << Str(r.val) >> ELSE << >>)
            \o UrlsFromSelectors(Tail(selectors))

Generator(urls, enc) == [encoding |-> enc, urls |-> urls, state |-> "running"]

\* Response.follow_all of the base class: a generator that calls
\* self.follow on each url in turn
Response_follow_all(s, urls, enc) ==
    IF urls.kind = "None"
    THEN Raise(s, Exc("TypeError", "'urls' argument must be an iterable", ""))
    ELSE Return(s, Generator(urls.items, enc))

\* The arguments counted by their truth, not by "is not None"
SuppliedArguments_truthy(urls, css_arg, xpath_arg) ==
    (IF urls.kind # "None" /\ urls.items # << >> THEN 1 ELSE 0)
        + (IF Truthy(css_arg) THEN 1 ELSE 0)
        + (IF Truthy(xpath_arg) THEN 1 ELSE 0)

SuppliedArguments(urls, css_arg, xpath_arg) ==
    (IF urls.kind # "None" THEN 1 ELSE 0) + (IF css_arg # None THEN 1 ELSE 0)
        + (IF xpath_arg # None THEN 1 ELSE 0)

\* follow_all that drops the invalid selectors of an ordinary list too
follow_all_filtering_every_collection(s, urls, enc, css_arg, xpath_arg, found) ==
    IF SuppliedArguments(urls, css_arg, xpath_arg) # 1
    THEN Raise(s, Exc("ValueError",
                      "Please supply exactly one of the following arguments: urls, css, xpath",
                      ""))
    ELSE LET Followable(u) ==
                 u.kind # "Selector" \/ _url_from_selector(u.sel).err = NoError
             not_urls == urls.kind = "None" \/ urls.items = << >>
             Super(by_xpath) ==
                 Response_follow_all(
                     by_xpath.self,
                     IF by_xpath.val.kind = "SelectorList"
                     THEN ListOf(UrlsFromSelectors(by_xpath.val.items))
                     ELSE IF by_xpath.val.kind = "list"
                     THEN ListOf(SelectSeq(by_xpath.val.items, Followable))
                     ELSE by_xpath.val,
                     enc)
             ByXpath(by_css) ==
                 IF not_urls /\ Truthy(xpath_arg)
                 THEN Bind(xpath(by_css.self, xpath_arg, found), Super)
                 ELSE Super(by_css)
         IN  Bind(IF not_urls /\ Truthy(css_arg)
                  THEN css(s, css_arg, found) ELSE Return(s, urls),
                  ByXpath)

follow_all(s, urls, enc, css_arg, xpath_arg, found) ==
    IF SuppliedArguments(urls, css_arg, xpath_arg) # 1
    THEN Raise(s, Exc("ValueError",
                      "Please supply exactly one of the following arguments: urls, css, xpath",
                      ""))
    ELSE LET not_urls == urls.kind = "None" \/ urls.items = << >>
             Super(by_xpath) ==
                 Response_follow_all(
                     by_xpath.self,
                     IF by_xpath.val.kind = "SelectorList"
                     THEN ListOf(UrlsFromSelectors(by_xpath.val.items))
                     ELSE by_xpath.val,
                     enc)
             ByXpath(by_css) ==
                 IF not_urls /\ Truthy(xpath_arg)
                 THEN Bind(xpath(by_css.self, xpath_arg, found), Super)
                 ELSE Super(by_css)
         IN  Bind(IF not_urls /\ Truthy(css_arg)
                  THEN css(s, css_arg, found) ELSE Return(s, urls),
                  ByXpath)

-----------------------------------------------------------------------------
(* The responses and the arguments of the model *)

\* The encoding keyword of the constructor: absent, empty, an alias, a name
Overrides == {None, "", "utf8", "cp1252"}

\* The charset of the Content-Type header: none, a known one, an unknown one
HeaderCharsets == {None, "utf8", "foo"}

Bodies ==
    { << >>,                              \* empty
      << 48 >>,                           \* 0
      << 110, 117, 108, 108 >>,           \* null
      << 102, 97, 108, 115, 101 >>,       \* false
      << 34, 34 >>,                       \* ""
      << 91, 93 >>,                       \* []
      << 123, 125 >>,                     \* {}
      BomUtf8 \o << 48 >>,                \* 0 after a UTF-8 byte order mark
      BomUtf16le \o << 48, 0 >>,          \* 0 in UTF-16 after its mark
      << 195, 169 >>,                     \* e-acute in UTF-8
      << 233 >>,                          \* e-acute in cp1252
      << 129 >>,                          \* a byte no candidate decodes
      << MetaLatin1, 233 >>,              \* declared latin1
      << MetaUtf8, 195, 169 >>,           \* declared utf8
      BomUtf8 \o << MetaLatin1 >> }       \* a mark and a declaration

SeqsUpTo(S, n) == UNION { [1..k -> S] : k \in 0..n }

PaddedX == << " ", "/", "x", "\n" >>

\* The targets of follow
Targets ==
    { Str(<< "x" >>), Link(PaddedX), SelectorListTarget,
      Selector(StrRoot(PaddedX)), Selector(OtherRoot),
      Selector(Element("a", << PaddedX >>)), Selector(Element("a", NoText)),
      Selector(Element("span", NoText)) }

\* What the results of a query are drawn from
QuerySelectors ==
    { Selector(Element("a", << PaddedX >>)),
      Selector(Element("link", << << "x" >> >>)),
      Selector(Element("a", NoText)),
      Selector(Element("div", << << "x" >> >>)),
      Selector(OtherRoot) }

\* The selectors _url_from_selector is applied to
Chars == {" ", "\n", "/", "x"}

Strings == SeqsUpTo(Chars, MaxHref)

Selectors ==
    { StrRoot(t) : t \in Strings } \cup { OtherRoot }
        \cup { Element(tag, << h >>) : tag \in {"a", "link", "span", "div"},
                                      h \in Strings }
        \cup { Element(tag, NoText) : tag \in {"a", "link", "span", "div"} }

\* The encoding argument of follow and follow_all
EncodingArgs == {None, "latin1"}

\* The css and xpath arguments of follow_all: absent, empty, a query
CssQueries == {None, "", "a"}

XpathQueries == {None, "a"}

\* The urls argument of follow_all: absent, the result of a query as it is,
\* the same selectors in an ordinary list, an ordinary list of a Link and a str
UrlsArgs ==
    { NoUrls, SelectorList(dom), ListOf(dom),
      ListOf(<< Link(PaddedX), Str(<< "x" >>) >>) }

-----------------------------------------------------------------------------
(* The state machine *)

NoGenerator ==
    [encoding |-> None, urls |-> << >>, state |-> "none", produced |-> << >>,
     source |-> "none", given |-> << >>, arg_encoding |-> None]

Threads == {1, 2}

\* A thread that is in no method
Idle == [val |-> None, op |-> "idle", pc |-> "idle"]

\* The state after construction, of every response of the model
Init ==
    /\ _encoding \in Overrides
    /\ headers \in HeaderCharsets
    /\ body \in Bodies
    /\ dom = << >>
    /\ _cached_benc = None
    /\ _cached_ubody = NoText
    /\ _cached_decoded_json = _NONE
    /\ _cached_selector = None
    /\ memo = [m \in Memoized |-> NotCached]
    /\ calls = [p \in Procedures |-> 0]
    /\ ret = [val |-> None, err |-> NoError, op |-> "__init__"]
    /\ gen = NoGenerator
    /\ text_results = {}
    /\ json_results = {}
    /\ threads = [t \in Threads |-> Idle]

\* The object after a call replaces the object before it
Commit(s) ==
    /\ \A p \in Procedures : s.calls[p] <= MaxCalls
    /\ _cached_benc' = s._cached_benc
    /\ _cached_ubody' = s._cached_ubody
    /\ _cached_decoded_json' = s._cached_decoded_json
    /\ _cached_selector' = s._cached_selector
    /\ memo' = s.memo
    /\ calls' = s.calls
    /\ UNCHANGED << _encoding, headers, body, dom >>

Outcome(op, r) == [val |-> r.val, err |-> r.err, op |-> op]

GetEncoding ==
    \E r \in { encoding(Self) } :
    /\ Commit(r.self)
    /\ ret' = Outcome("encoding", r)
    /\ UNCHANGED << gen, text_results, json_results, threads >>

GetText ==
    \E r \in { text(Self) } :
    /\ Commit(r.self)
    /\ ret' = [val |-> r.val, err |-> r.err, op |-> "text",
               again |-> text_results # {}]
    /\ text_results' = text_results \cup {r.val}
    /\ UNCHANGED << gen, json_results, threads >>

CallJson ==
    \E r \in { json(Self) } :
    /\ Commit(r.self)
    /\ ret' = [val |-> r.val, err |-> r.err, op |-> "json",
               again |-> calls["json_loads"] > 0]
    /\ json_results' = IF r.err = NoError THEN json_results \cup {r.val}
                       ELSE json_results
    /\ UNCHANGED << gen, text_results, threads >>

GetSelector ==
    \E r \in { selector(Self) } :
    /\ Commit(r.self)
    /\ ret' = Outcome("selector", r)
    /\ UNCHANGED << gen, text_results, json_results, threads >>

CallUrljoin ==
    \E url \in {<< "x" >>, PaddedX} :
        \E r \in { urljoin(Self, url) } :
        /\ Commit(r.self)
        /\ ret' = [val |-> r.val, err |-> r.err, url |-> url, op |-> "urljoin"]
        /\ UNCHANGED << gen, text_results, json_results, threads >>

\* css(query) and xpath(query) on the document of the response
CallCss ==
    \E r \in { css(Self, "a", dom) } :
    /\ Commit(r.self)
    /\ ret' = Outcome("css", r)
    /\ UNCHANGED << gen, text_results, json_results, threads >>

CallXpath ==
    \E r \in { xpath(Self, "a", dom) } :
    /\ Commit(r.self)
    /\ ret' = Outcome("xpath", r)
    /\ UNCHANGED << gen, text_results, json_results, threads >>

\* follow(url, encoding=enc)
Follow(url, enc) ==
    \E r \in { follow(Self, url, enc) } :
        /\ Commit(r.self)
        /\ ret' = [val |-> r.val, err |-> r.err, encoding |-> enc,
                   url |-> url, op |-> "follow"]
        /\ UNCHANGED << gen, text_results, json_results, threads >>

CallFollow == \E url \in Targets, enc \in EncodingArgs : Follow(url, enc)

\* follow of a Link
CallFollowLink == \E enc \in EncodingArgs : Follow(Link(PaddedX), enc)

\* follow_all(urls, encoding=enc, css=css_arg, xpath=xpath_arg)
CallFollowAll ==
    \E urls \in UrlsArgs, css_arg \in CssQueries, xpath_arg \in XpathQueries,
       enc \in EncodingArgs :
        \E r \in { follow_all(Self, urls, enc, css_arg, xpath_arg, dom) } :
        LET queried == r.err = NoError /\ urls.kind = "None" IN
        /\ Commit(r.self)
        /\ ret' = [val |-> None, err |-> r.err, css |-> css_arg,
                   xpath |-> xpath_arg, urls |-> urls.kind, op |-> "follow_all"]
        /\ gen' = IF r.err # NoError THEN NoGenerator
                  ELSE [encoding |-> r.val.encoding, urls |-> r.val.urls,
                        state |-> "running", produced |-> << >>,
                        source |-> IF queried THEN "query" ELSE urls.kind,
                        given |-> IF queried THEN dom ELSE urls.items,
                        arg_encoding |-> enc]
        /\ UNCHANGED << text_results, json_results, threads >>

\* next() on the generator follow_all returned
NextRequest ==
    /\ gen.state = "running"
    /\ IF gen.urls = << >>
       THEN /\ gen' = [gen EXCEPT !.state = "done"]
            /\ ret' = [val |-> None, err |-> Exc("StopIteration", "", ""),
                       op |-> "next"]
            /\ UNCHANGED << _encoding, headers, body, dom, _cached_benc,
                            _cached_ubody, _cached_decoded_json,
                            _cached_selector, memo, calls >>
       ELSE \E r \in { follow(Self, Head(gen.urls), gen.encoding) } :
            /\ Commit(r.self)
            /\ ret' = Outcome("next", r)
            /\ gen' = IF r.err # NoError
                      THEN [gen EXCEPT !.state = "failed"]
                      ELSE [gen EXCEPT !.urls = Tail(@),
                                       !.produced = Append(@, r.val)]
    /\ UNCHANGED << text_results, json_results, threads >>

\* _url_from_selector applied to a selector
UrlFromSelector ==
    \E sel \in Selectors :
        \E r \in { _url_from_selector(sel) } :
        /\ ret' = [val |-> r.val, err |-> r.err, sel |-> sel,
                   op |-> "_url_from_selector"]
        /\ UNCHANGED << _encoding, headers, body, dom, _cached_benc,
                        _cached_ubody, _cached_decoded_json, _cached_selector,
                        memo, calls, gen, text_results, json_results, threads >>

\* The operations on one response, follow_all apart
Next ==
    \/ GetEncoding
    \/ GetText
    \/ CallJson
    \/ GetSelector
    \/ CallUrljoin
    \/ CallFollow

Spec == Init /\ [][Next]_vars

\* follow_all and its generator, on a few responses with a document each
InitFollowAll ==
    /\ _encoding \in {None, "utf8"}
    /\ headers = None
    /\ body = << 129 >>
    /\ dom \in SeqsUpTo(QuerySelectors, MaxTargets)
    /\ _cached_benc = None
    /\ _cached_ubody = NoText
    /\ _cached_decoded_json = _NONE
    /\ _cached_selector = None
    /\ memo = [m \in Memoized |-> NotCached]
    /\ calls = [p \in Procedures |-> 0]
    /\ ret = [val |-> None, err |-> NoError, op |-> "__init__"]
    /\ gen = NoGenerator
    /\ text_results = {}
    /\ json_results = {}
    /\ threads = [t \in Threads |-> Idle]

NextFollowAll ==
    \/ CallFollowAll
    \/ NextRequest
    \/ CallFollowLink
    \/ GetEncoding
    \/ GetText

SpecFollowAll == InitFollowAll /\ [][NextFollowAll]_vars

\* Every public operation, on a few responses
InitSlots ==
    /\ _encoding \in {None, "utf8"}
    /\ headers = None
    /\ body \in { << 91, 93 >>, << 129 >> }
    /\ dom \in { << >>, << Selector(Element("a", << PaddedX >>)) >> }
    /\ _cached_benc = None
    /\ _cached_ubody = NoText
    /\ _cached_decoded_json = _NONE
    /\ _cached_selector = None
    /\ memo = [m \in Memoized |-> NotCached]
    /\ calls = [p \in Procedures |-> 0]
    /\ ret = [val |-> None, err |-> NoError, op |-> "__init__"]
    /\ gen = NoGenerator
    /\ text_results = {}
    /\ json_results = {}
    /\ threads = [t \in Threads |-> Idle]

NextSlots ==
    \/ GetEncoding
    \/ GetText
    \/ CallJson
    \/ GetSelector
    \/ CallCss
    \/ CallXpath
    \/ CallUrljoin
    \/ CallFollow
    \/ CallFollowAll
    \/ NextRequest

SpecSlots == InitSlots /\ [][NextSlots]_vars

\* _url_from_selector as a function of the selector alone
InitSelector ==
    /\ Init
    /\ _encoding = None /\ headers = None /\ body = << >>

SpecSelector == InitSelector /\ [][UrlFromSelector]_vars

-----------------------------------------------------------------------------
(* Threads on one response.  Nothing in TextResponse takes a lock, so a      *)
(* thread can be preempted between the test of a slot, the computation of   *)
(* its value, the assignment and the return.  Each of these is one step;    *)
(* a call made inside a computation (_declared_encoding, html_to_unicode,   *)
(* the text read by Selector(self)) runs within its step.                   *)

Methods == {"encoding", "text", "json", "selector"}

FirstLine(m) ==
    CASE m = "json" -> "json_test"
      [] m = "selector" -> "selector_test"
      [] OTHER -> "declared"

\* Thread t goes to line pc holding v
Goto(t, pc, v) ==
    threads' = [threads EXCEPT ![t] = [val |-> v, op |-> threads[t].op, pc |-> pc]]

\* Where a thread goes once self.encoding has its value
AfterEncoding(t) == IF threads[t].op = "text" THEN "ubody_test" ELSE "returned"

NoCallBySequentialOperation == UNCHANGED << ret, gen, text_results, json_results >>

\* A thread that is in no method calls one
ThreadCall(t) ==
    \E m \in Methods :
        /\ threads[t].pc \in {"idle", "returned", "raised"}
        /\ threads' = [threads EXCEPT ![t] = [val |-> None, op |-> m, pc |-> FirstLine(m)]]
        /\ Commit(Self)
        /\ NoCallBySequentialOperation

\* json(), lines 86-88
JsonStep(t) ==
    /\ threads[t].op = "json"
    /\ CASE threads[t].pc = "json_test" ->
              /\ Goto(t, IF _cached_decoded_json = _NONE THEN "json_loads"
                         ELSE "json_return", None)
              /\ Commit(Self)
         [] threads[t].pc = "json_loads" ->
              \E v \in { json_loads(body) } :
                  /\ Goto(t, IF v \in JsonErrors THEN "raised" ELSE "json_store", v)
                  /\ Commit(Count(Self, "json_loads"))
         [] threads[t].pc = "json_store" ->
              /\ Goto(t, "json_return", None)
              /\ Commit([Self EXCEPT !._cached_decoded_json = threads[t].val])
         [] threads[t].pc = "json_return" ->
              /\ Goto(t, "returned", _cached_decoded_json)
              /\ Commit(Self)
         [] OTHER -> FALSE
    /\ NoCallBySequentialOperation

\* self.encoding, lines 70 and 112-124, in encoding and in text (line 95)
EncodingStep(t) ==
    /\ threads[t].op \in {"encoding", "text"}
    /\ CASE threads[t].pc = "declared" ->
              \E r \in { _declared_encoding(Self) } :
                  /\ IF Truthy(r.val) THEN Goto(t, AfterEncoding(t), r.val)
                     ELSE Goto(t, "benc_test", None)
                  /\ Commit(r.self)
         [] threads[t].pc = "benc_test" ->
              /\ Goto(t, IF _cached_benc = None THEN "benc_decode"
                         ELSE "benc_return", None)
              /\ Commit(Self)
         [] threads[t].pc = "benc_decode" ->
              \E r \in { html_to_unicode(Self, headers, _DEFAULT_ENCODING, TRUE) } :
                  /\ Goto(t, "benc_store", r.val)
                  /\ Commit(r.self)
         [] threads[t].pc = "benc_store" ->
              /\ Goto(t, "benc_return", None)
              /\ Commit([Self EXCEPT !._cached_benc = threads[t].val[1],
                                     !._cached_ubody = SomeText(threads[t].val[2])])
         [] threads[t].pc = "benc_return" ->
              /\ Goto(t, AfterEncoding(t), _cached_benc)
              /\ Commit(Self)
         [] OTHER -> FALSE
    /\ NoCallBySequentialOperation

\* text, lines 96-99, the thread holding benc
TextStep(t) ==
    /\ threads[t].op = "text"
    /\ CASE threads[t].pc = "ubody_test" ->
              /\ Goto(t, IF _cached_ubody = NoText THEN "ubody_decode"
                         ELSE "ubody_return", threads[t].val)
              /\ Commit(Self)
         [] threads[t].pc = "ubody_decode" ->
              \E r \in { html_to_unicode(Self, threads[t].val, "utf8", FALSE) } :
                  /\ Goto(t, "ubody_store", r.val[2])
                  /\ Commit(r.self)
         [] threads[t].pc = "ubody_store" ->
              /\ Goto(t, "ubody_return", None)
              /\ Commit([Self EXCEPT !._cached_ubody = SomeText(threads[t].val)])
         [] threads[t].pc = "ubody_return" ->
              /\ Goto(t, "returned", _cached_ubody[1])
              /\ Commit(Self)
         [] OTHER -> FALSE
    /\ NoCallBySequentialOperation

\* selector, lines 147-149
SelectorStep(t) ==
    /\ threads[t].op = "selector"
    /\ CASE threads[t].pc = "selector_test" ->
              /\ Goto(t, IF _cached_selector = None THEN "selector_build"
                         ELSE "selector_return", None)
              /\ Commit(Self)
         [] threads[t].pc = "selector_build" ->
              \E r \in { text(Count(Self, "Selector")) } :
                  /\ Goto(t, "selector_store", "Selector")
                  /\ Commit(r.self)
         [] threads[t].pc = "selector_store" ->
              /\ Goto(t, "selector_return", None)
              /\ Commit([Self EXCEPT !._cached_selector = threads[t].val])
         [] threads[t].pc = "selector_return" ->
              /\ Goto(t, "returned", _cached_selector)
              /\ Commit(Self)
         [] OTHER -> FALSE
    /\ NoCallBySequentialOperation

InitThreads ==
    /\ Init
    /\ _encoding = None /\ headers = None
    /\ body \in { << 91, 93 >>, << 129 >> }

NextThreads ==
    \E t \in Threads :
        \/ ThreadCall(t)
        \/ JsonStep(t)
        \/ EncodingStep(t)
        \/ TextStep(t)
        \/ SelectorStep(t)

SpecThreads == InitThreads /\ [][NextThreads]_vars

-----------------------------------------------------------------------------
(* Properties of encoding(), text() and json(), under Spec *)

\* C1 as stated: whenever the constructor was given an encoding, encoding()
\* returns exactly that value.
C1_OverrideAlwaysWins ==
    (ret.op = "encoding" /\ _encoding # None) => ret.val = _encoding

\* C1, amended: whenever the constructor was given a non-empty encoding,
\* encoding() returns exactly that value, whatever the byte order mark, the
\* header charset and the declaration in the body are and whatever was
\* called before; an empty encoding counts as none given.
C1_NonEmptyOverrideWins ==
    (ret.op = "encoding" /\ _encoding \notin {None, ""}) => ret.val = _encoding

\* An override returned against a byte order mark, a header charset and a
\* declaration in the body that all say otherwise, after text() and json()
C1_Witness ==
    /\ ret.op = "encoding" /\ ret.val = "cp1252" /\ _encoding = "cp1252"
    /\ body = BomUtf8 \o << MetaLatin1 >> /\ headers = "utf8"
    /\ text_results # {} /\ calls["json_loads"] > 0

\* The answer of the chain read off the inputs: the first of byte order mark,
\* header charset, declaration in the body and auto-detection to give one
AutoDetected(b) ==
    IF Decodes(b, _DEFAULT_ENCODING) THEN resolve_encoding(_DEFAULT_ENCODING)
    ELSE IF Decodes(b, "utf-8") THEN "utf-8"
    ELSE IF Decodes(b, "cp1252") THEN "cp1252"
    ELSE _DEFAULT_ENCODING

FirstAnswer(h, b) ==
    IF read_bom(b)[1] # None THEN read_bom(b)[1]
    ELSE IF http_content_type_encoding(h) # None THEN http_content_type_encoding(h)
    ELSE IF html_body_declared_encoding(b) # None THEN html_body_declared_encoding(b)
    ELSE AutoDetected(b)

\* C2: without an override, encoding() returns the answer of the first
\* detector that has one, in the order byte order mark, header charset,
\* declaration in the body, auto-detection.
C2_DetectorPriority ==
    (ret.op = "encoding" /\ _encoding = None) => ret.val = FirstAnswer(headers, body)

\* A byte order mark that wins over a header charset and a declaration
C2_Witness ==
    /\ ret.op = "encoding" /\ _encoding = None /\ ret.val = "utf-8"
    /\ body = BomUtf8 \o << MetaLatin1 >> /\ headers = "utf8"

\* C3: html_to_unicode runs at most once on a response, every text access
\* returns the same string, and once the encoding has been inferred from the
\* body the text returned is the one decoded then.
C3_DecodeOnce ==
    /\ calls["html_to_unicode"] <= 1
    /\ Cardinality(text_results) <= 1
    /\ (ret.op = "text" /\ _cached_benc # None)
          => ret.val = to_unicode(body, _cached_benc)

\* A repeated text access on a response whose encoding was auto-detected
C3_Witness ==
    /\ ret.op = "text" /\ ret.again /\ _cached_benc = "utf-8"
    /\ ret.val = << 233 >> /\ calls["html_to_unicode"] = 1

\* The JSON documents of the model, after a byte order mark if any
IsJson(b) ==
    JsonPayload(b) \in { << 48 >>, << 110, 117, 108, 108 >>,
                         << 102, 97, 108, 115, 101 >>, << 34, 34 >>,
                         << 91, 93 >>, << 123, 125 >> }

\* C4: on a body that is not JSON every json() call raises the error of
\* json.loads; none returns a value.
C4_MalformedJsonAlwaysRaises ==
    ~IsJson(body) =>
        /\ ret.op = "json" => ret.err.exc \in JsonErrors
        /\ json_results = {}

\* A second json() call on a body that is not JSON, raising again
C4_Witness ==
    /\ ret.op = "json" /\ ret.again /\ ret.err.exc = "JSONDecodeError"
    /\ body = << 195, 169 >>

\* C5: on a body that is JSON json.loads runs at most once and every json()
\* call returns the same value, the one the document denotes.
C5_JsonLoadedOnce ==
    IsJson(body) =>
        /\ calls["json_loads"] <= 1
        /\ Cardinality(json_results) <= 1
        /\ ret.op = "json" => (ret.err = NoError /\ ret.val = json_loads(body))

\* A second json() call on the document null, returning None again
C5_Witness ==
    /\ ret.op = "json" /\ ret.again /\ ret.val = None /\ ret.err = NoError
    /\ body = << 110, 117, 108, 108 >> /\ calls["json_loads"] = 1

-----------------------------------------------------------------------------
(* Properties of follow_all and of the requests, under SpecFollowAll *)

\* How many of urls, css and xpath the last follow_all call was given
SuppliedToLastCall ==
    (IF ret.urls # "None" THEN 1 ELSE 0) + (IF ret.css # None THEN 1 ELSE 0)
        + (IF ret.xpath # None THEN 1 ELSE 0)

AmbiguousSource ==
    Exc("ValueError",
        "Please supply exactly one of the following arguments: urls, css, xpath", "")

\* C6: a follow_all call given none, two or all three of urls, css and xpath
\* raises the ValueError of the arguments and does nothing else: no selector
\* is built, no query runs, nothing is decoded, no generator is returned.
C6_AmbiguousSourceFailsFirst ==
    [][ (ret'.op = "follow_all" /\ SuppliedToLastCall' # 1) =>
            /\ ret'.err = AmbiguousSource
            /\ gen' = NoGenerator
            /\ UNCHANGED << _cached_benc, _cached_ubody, _cached_decoded_json,
                            _cached_selector, memo, calls >> ]_vars

\* follow_all given a SelectorList and a css query: the error, and no selector
C6_Witness ==
    /\ ret.op = "follow_all" /\ ret.urls = "SelectorList" /\ ret.css = "a"
    /\ ret.xpath = None /\ ret.err = AmbiguousSource
    /\ gen = NoGenerator /\ _cached_selector = None

\* A selector _url_from_selector gets a URL from, and the string it trims
Normalizes(t) ==
    \/ t.sel.root = "str"
    \/ t.sel.root = "element" /\ t.sel.tag \in {"a", "link"} /\ t.sel.href # NoText

LinkOf(t) == IF t.sel.root = "str" THEN t.sel.text ELSE t.sel.href[1]

\* C7: when the targets are the result of a query or a SelectorList, the
\* generator never raises a validation error and yields one request per
\* selector that normalizes, in the order of the selectors; the others are
\* left out.
C7_InvalidSelectorsDropped ==
    gen.source \in {"query", "SelectorList"} =>
        LET valid == SelectSeq(gen.given, Normalizes) IN
        /\ gen.state # "failed"
        /\ Len(gen.produced) + Len(gen.urls) = Len(valid)
        /\ \A i \in 1..Len(gen.produced) :
              gen.produced[i].url
                  = urljoin_base(strip_html5_whitespace(LinkOf(valid[i])))
        /\ gen.state = "done" => Len(gen.produced) = Len(valid)

\* A query that found a <div> and then an <a href>: one request, for the <a>
C7_Witness ==
    /\ gen.source = "query" /\ gen.state = "done"
    /\ gen.given = << Selector(Element("div", << << "x" >> >>)),
                      Selector(Element("a", << PaddedX >>)) >>
    /\ Len(gen.produced) = 1
    /\ gen.produced[1].url = << "https://x.test", "/", "x" >>

\* C8 as stated: iterating the result of follow_all never raises the
\* validation error of an item.
C8_NoValidationErrorInBulk ==
    ~(ret.op = "next" /\ ret.err.exc = "_InvalidSelector")

\* C8, amended: the generator raises the validation error of an item only
\* when the targets were given as an ordinary collection and the item it has
\* reached is a selector no URL can be got from; such a collection is not
\* filtered, so the generator ends normally only when the collection holds
\* no such selector.
C8_OnlyOrdinaryCollectionsRaise ==
    /\ (gen.state = "failed" \/ (ret.op = "next" /\ ret.err.exc = "_InvalidSelector"))
          => /\ gen.source = "list" /\ gen.state = "failed"
             /\ gen.urls # << >>
             /\ Head(gen.urls).kind = "Selector" /\ ~Normalizes(Head(gen.urls))
    /\ gen.source = "list" =>
          /\ Len(gen.produced) + Len(gen.urls) = Len(gen.given)
          /\ gen.state = "done" =>
                \A i \in 1..Len(gen.given) :
                    gen.given[i].kind = "Selector" => Normalizes(gen.given[i])

\* An ordinary list of an <a href> and a <div>: one request, then the error
C8_Witness ==
    /\ gen.source = "list" /\ gen.state = "failed"
    /\ Len(gen.produced) = 1 /\ Len(gen.given) = 2
    /\ ret.op = "next" /\ ret.err.exc = "_InvalidSelector" /\ ret.err.tag = "div"

\* The encoding a request is to carry: the caller's, else what encoding() returns
Carried(enc) == IF enc # None THEN enc ELSE encoding(Self).val

\* C10: a request follow() returns, and every request the generator of
\* follow_all yields, carries the encoding the caller gave, or the value of
\* encoding() when the caller gave none.
C10_RequestEncoding ==
    /\ (ret.op = "follow" /\ ret.err = NoError)
          => ret.val.encoding = Carried(ret.encoding)
    /\ \A i \in 1..Len(gen.produced) :
          gen.produced[i].encoding = Carried(gen.arg_encoding)

\* A request of follow_all, called without an encoding, on a response whose
\* encoding is the fallback of auto-detection
C10_Witness ==
    /\ Len(gen.produced) > 0 /\ gen.arg_encoding = None /\ _encoding = None
    /\ gen.produced[1].encoding = _DEFAULT_ENCODING

-----------------------------------------------------------------------------
(* Properties of _url_from_selector, under SpecSelector *)

\* v is t without the whitespace at its ends
IsTrimOf(v, t) ==
    \E i \in 0..Len(t) : \E j \in i..Len(t) :
        /\ v = SubSeq(t, i + 1, j)
        /\ \A k \in 1..i : t[k] \in Html5Whitespace
        /\ \A k \in (j + 1)..Len(t) : t[k] \in Html5Whitespace
        /\ v # << >> => (v[1] \notin Html5Whitespace /\ v[Len(v)] \notin Html5Whitespace)

\* C9: _url_from_selector decides in this order: a string root gives the
\* trimmed string; a root without a tag raises "Unsupported selector"; a tag
\* other than a and link raises the error that names the tag; a missing href
\* raises the error of the missing attribute; otherwise the trimmed href.
C9_NormalizationOrder ==
    ret.op = "_url_from_selector" =>
        LET sel == ret.sel IN
        IF sel.root = "str"
        THEN ret.err = NoError /\ IsTrimOf(ret.val, sel.text)
        ELSE IF sel.root # "element"
        THEN ret.err.exc = "_InvalidSelector" /\ ret.err.msg = "Unsupported selector"
        ELSE IF sel.tag \notin {"a", "link"}
        THEN /\ ret.err.exc = "_InvalidSelector" /\ ret.err.tag = sel.tag
             /\ ret.err.msg = "Only <a> and <link> elements are supported"
        ELSE IF sel.href = NoText
        THEN /\ ret.err.exc = "_InvalidSelector"
             /\ ret.err.msg = "element has no href attribute"
        ELSE ret.err = NoError /\ IsTrimOf(ret.val, sel.href[1])

\* A <span> without href: the error names the tag, not the missing attribute
C9_Witness ==
    /\ ret.op = "_url_from_selector" /\ ret.sel = Element("span", NoText)
    /\ ret.err = _InvalidSelector("Only <a> and <link> elements are supported", "span")

-----------------------------------------------------------------------------
(* Properties of the detectors and of the JSON slot, under Spec *)

Detectors == Memoized \cup {"_auto_detect_fun"}

NoDetectorHasRun ==
    /\ \A d \in Detectors : calls[d] = 0
    /\ \A m \in Memoized : memo[m] = NotCached
    /\ _cached_benc = None

\* C13 as stated: whenever the constructor was given an encoding, no detector
\* ever runs.
C13_NoDetectorWithAnyOverride == _encoding # None => NoDetectorHasRun

\* C13, amended: whenever the constructor was given a non-empty encoding, no
\* call runs _bom_encoding, _headers_encoding, _body_declared_encoding,
\* _body_inferred_encoding or _auto_detect_fun.
C13_NoDetectorWithOverride == _encoding \notin {None, ""} => NoDetectorHasRun

\* A repeated text access under an override, on a body with a byte order mark
\* and a declaration and with a header charset: no detector has run
C13_Witness ==
    /\ _encoding = "cp1252" /\ ret.op = "text" /\ ret.again
    /\ body = BomUtf8 \o << MetaLatin1 >> /\ headers = "utf8"
    /\ NoDetectorHasRun /\ calls["html_to_unicode"] = 1

\* C14: each detector runs at most once, a None result included, and only
\* when every layer above it has no answer.
C14_DetectorsOnceAndInOrder ==
    /\ \A d \in Detectors : calls[d] <= 1
    /\ \A m \in Memoized : (calls[m] = 1) <=> (memo[m] # NotCached)
    /\ calls["_bom_encoding"] > 0 => ~Truthy(_encoding)
    /\ calls["_headers_encoding"] > 0 =>
          calls["_bom_encoding"] > 0 /\ read_bom(body)[1] = None
    /\ calls["_body_declared_encoding"] > 0 =>
          calls["_headers_encoding"] > 0
              /\ http_content_type_encoding(headers) = None
    /\ calls["_auto_detect_fun"] > 0 =>
          calls["_body_declared_encoding"] > 0
              /\ html_body_declared_encoding(body) = None

\* encoding() after text(), on a response where no detector has an answer:
\* each has run once and has None in its cache
C14_Witness ==
    /\ ret.op = "encoding" /\ text_results # {}
    /\ \A m \in Memoized : calls[m] = 1 /\ memo[m] = None
    /\ calls["_auto_detect_fun"] = 1

\* No layer above auto-detection has an answer
FallbackReached ==
    /\ ~Truthy(_encoding)
    /\ read_bom(body)[1] = None
    /\ http_content_type_encoding(headers) = None
    /\ html_body_declared_encoding(body) = None

FallbackCandidates == << _DEFAULT_ENCODING, "utf-8", "cp1252" >>

Decoding == { i \in 1..Len(FallbackCandidates) : Decodes(body, FallbackCandidates[i]) }

\* C16: when the fallback is reached, encoding() raises nothing and returns
\* the resolved name of the first of the default encoding, UTF-8 and cp1252
\* under which the body decodes, and the default encoding when it decodes
\* under none.
C16_FallbackOrder ==
    (ret.op = "encoding" /\ FallbackReached) =>
        /\ ret.err = NoError
        /\ ret.val = IF Decoding = {} THEN _DEFAULT_ENCODING
                     ELSE resolve_encoding(FallbackCandidates[
                              CHOOSE i \in Decoding : \A j \in Decoding : i <= j])

\* A body that decodes under UTF-8 and under cp1252, not under the default
C16_Witness ==
    /\ ret.op = "encoding" /\ FallbackReached /\ body = << 195, 169 >>
    /\ Decoding = {2, 3} /\ ret.val = "utf-8"

\* A name resolve_encoding leaves as it is
IsCanonical(e) == e # None /\ resolve_encoding(e) = e

\* C19 as stated: every value encoding() returns is a canonical name.
C19_AlwaysCanonical == ret.op = "encoding" => IsCanonical(ret.val)

\* C19, amended: encoding() returns a canonical name when a byte order mark,
\* the header, the declaration in the body or a candidate of auto-detection
\* gives it; a non-empty override is returned as it was given, and the
\* default encoding as it is when the body decodes under no candidate.
C19_DetectedNamesCanonical ==
    ret.op = "encoding" =>
        IF Truthy(_encoding) THEN ret.val = _encoding
        ELSE IF FallbackReached /\ Decoding = {} THEN ret.val = _DEFAULT_ENCODING
        ELSE IsCanonical(ret.val)

\* The header charset utf8, returned as utf-8
C19_Witness ==
    /\ ret.op = "encoding" /\ _encoding = None /\ headers = "utf8"
    /\ body = << 233 >> /\ ret.val = "utf-8"

\* A target follow() does not accept
InvalidTarget(u) ==
    \/ u.kind = "SelectorList"
    \/ u.kind = "Selector" /\ ~Normalizes(u)

\* C17: follow() fails on a target that is a SelectorList or a selector no
\* URL can be got from, and a failing call returns no request and leaves
\* every slot, every memoized detector and every counter as it was.
C17_FailedFollowChangesNothing ==
    [][ ret'.op = "follow" =>
            /\ InvalidTarget(ret'.url) => ret'.err # NoError
            /\ ret'.err # NoError =>
                  /\ ret'.val = None
                  /\ UNCHANGED << _cached_benc, _cached_ubody,
                                  _cached_decoded_json, _cached_selector,
                                  memo, calls >> ]_vars

\* follow() of a <span> on a fresh response: the error, and nothing resolved
C17_Witness ==
    /\ ret.op = "follow" /\ ret.url = Selector(Element("span", NoText))
    /\ ret.encoding = None /\ ret.err.exc = "_InvalidSelector"
    /\ _encoding = None /\ _cached_benc = None /\ _cached_ubody = NoText
    /\ \A p \in Procedures : calls[p] = 0

\* What json() is to return or raise, read off the body alone
JsonOutcomeOf(b, r) ==
    IF json_loads(b) \in JsonErrors
    THEN r.err.exc = json_loads(b)
    ELSE r.err = NoError /\ r.val = json_loads(b)

\* C18: a json() call changes no slot but its own, runs nothing but
\* json.loads and has the outcome the body alone determines, whatever was
\* called before; encoding() and text() leave the JSON slot as it was and do
\* not run json.loads.
C18_JsonIndependentOfText ==
    [][ /\ ret'.op = "json" =>
              /\ UNCHANGED << _cached_benc, _cached_ubody, _cached_selector, memo >>
              /\ \A p \in Procedures \ {"json_loads"} : calls'[p] = calls[p]
              /\ JsonOutcomeOf(body, ret')
        /\ ret'.op \in {"encoding", "text"} =>
              /\ _cached_decoded_json' = _cached_decoded_json
              /\ calls'["json_loads"] = calls["json_loads"] ]_vars

\* The first json() call, made after text(): the document, and the text and
\* encoding slots as text() left them
C18_Witness ==
    /\ ret.op = "json" /\ ~ret.again /\ ret.err = NoError /\ ret.val = "[]"
    /\ text_results = {<< 91, 93 >>} /\ _cached_ubody = SomeText(<< 91, 93 >>)
    /\ calls["html_to_unicode"] = 1

-----------------------------------------------------------------------------
(* Properties of the four slots, under SpecSlots *)

\* A slot that holds a value holds it after the step
SlotsKept ==
    /\ _cached_benc # None => _cached_benc' = _cached_benc
    /\ _cached_ubody # NoText => _cached_ubody' = _cached_ubody
    /\ _cached_decoded_json # _NONE => _cached_decoded_json' = _cached_decoded_json
    /\ _cached_selector # None => _cached_selector' = _cached_selector

\* A slot is filled by an operation that needs it
SlotsFilledOnDemand ==
    /\ _cached_decoded_json' # _cached_decoded_json => ret'.op = "json"
    /\ _cached_selector' # _cached_selector
          => ret'.op \in {"selector", "css", "xpath", "follow_all"}
    /\ (_cached_benc' # _cached_benc \/ _cached_ubody' # _cached_ubody)
          => ret'.op # "json"

\* A slot that holds a value was computed
SlotsComputed ==
    /\ _cached_benc # None => calls["html_to_unicode"] > 0
    /\ _cached_ubody # NoText => calls["html_to_unicode"] > 0
    /\ _cached_decoded_json # _NONE => calls["json_loads"] > 0
    /\ _cached_selector # None => calls["Selector"] > 0

\* C15: no operation (encoding, text, json, selector, css, xpath, urljoin,
\* follow, follow_all, the iteration of its result) clears a slot that holds
\* a value or puts another value in it; a slot holds a value only after the
\* procedure that computes it has run, in an operation that needs it.
C15_SlotsNeverInvalidated ==
    []SlotsComputed /\ [][SlotsKept /\ SlotsFilledOnDemand]_vars

\* A follow_all call on a response whose four slots are all filled
C15_Witness ==
    /\ ret.op = "follow_all" /\ ret.err = NoError
    /\ _cached_benc = "cp1252" /\ _cached_ubody # NoText
    /\ _cached_decoded_json = "[]" /\ _cached_selector = "Selector"

-----------------------------------------------------------------------------
(* Property of the slots under threads, under SpecThreads *)

\* C11: with threads calling text(), encoding(), json() and selector on one
\* response, the decode, the JSON deserialization and the construction of
\* the selector each run at most once, and the threads that have returned
\* from the same method hold the same value.
C11_ComputedOnceUnderThreads ==
    /\ calls["html_to_unicode"] <= 1
    /\ IsJson(body) => calls["json_loads"] <= 1
    /\ calls["Selector"] <= 1
    /\ \A t1, t2 \in Threads :
          (/\ threads[t1].pc = "returned" /\ threads[t2].pc = "returned"
           /\ threads[t1].op = threads[t2].op)
              => threads[t1].val = threads[t2].val

=============================================================================
